---- MODULE Spec2Model ----
(***************************************************************************)
(* A model of the performance telemetry overlay: the chart component       *)
(* (src/src/debug/PerformanceCharts.tsx, second definition), its CPU       *)
(* worker (src/unnamed/part_004), the 30 s windowed chart variant          *)
(* (src/unnamed/part_003), the metrics collector                           *)
(* (src/src/debug/BrowserPerformanceTest.tsx), the chart aggregation and   *)
(* the JSON and PDF exports.                                               *)
(*                                                                         *)
(* Times are integer milliseconds.  A JavaScript number that the code      *)
(* obtains by division is kept as an exact fraction or NaN (JsNum); the    *)
(* rounding of IEEE doubles is not modelled.                               *)
(***************************************************************************)
EXTENDS Integers, Sequences, FiniteSets, TLC

VARIABLES
    now,            \* the wall clock, Date.now() / performance.now()
    lastOp,         \* name of the handler that ran last (history)
    \* ---- chart component, full-history variant (PerformanceCharts.tsx 232-520)
    chartData,      \* useState<ChartData>: memoryTimeSeries, performanceData
    baseTime,       \* useState(Date.now())
    hasMemory,      \* host: performance.memory is defined
    gpuContext,     \* useState<WebGLRenderingContext | null>: "gl" or "null"
    memDue,         \* next firing time of the memory setInterval
    perfDue,        \* next firing time of the performance setInterval
    mounted,        \* the chart view is mounted (its effects not yet cleaned up)
    memTimer,       \* number of memory setIntervals set and not cleared
    perfTimer,      \* number of performance setIntervals set and not cleared
    cpuWorker,      \* useState<Worker | null>: "worker" or "null"
    queued,         \* setCpuWorker / setGpuContext calls not yet rendered
    terminated,     \* worker.terminate() has been called
    glLost,         \* ext.loseContext() has been called
    dropped,        \* messages discarded by worker.terminate() (history)
    gpuSampled,     \* estimateGPUUsage has run its buffer upload (history)
    \* ---- CPU worker (part_004) and its message channel
    workerLoaded,   \* the worker script has been evaluated
    lastTime,       \* let lastTime
    lastUsage,      \* let lastUsage
    workerDue,      \* firing time of the pending setTimeout(calculateCPULoad, 1000)
    runs,           \* number of benchmark runs so far (bounded)
    pendingRuns,    \* setTimeout(calculateCPULoad, 1000) callbacks set and not yet run
    inbox,          \* messages posted by the worker, not yet delivered
    readings,       \* the values of `usage` of the runs so far (history)
    emitted,        \* the values passed to postMessage so far (history)
    \* ---- chart component, 30 s windowed variant (part_003)
    memoryTimeSeries,   \* useState<MemoryDataPoint[]>
    prevTimeSeries,     \* memoryTimeSeries before the last tick (history)
    winDue,             \* next firing time of the variant's setInterval
    \* ---- metrics collector (BrowserPerformanceTest.tsx) and its host
    variant,        \* "sync": class of lines 51-140; "async": class of lines 194-358
    hostData,       \* the host's navigation, paint, heap and resource entries
    navPresent,     \* host: getEntriesByType("navigation")[0] exists
    observer,       \* host: "none" (no PerformanceObserver), "ok", "throws" (observe throws)
    layoutShifts,   \* host: the layout-shift entries recorded so far
    metrics,        \* this.metrics
    pc,             \* runFullTest: "idle", "awaiting" (at its await), "resolved"
    report,         \* what the last generateReport printed
    pending,        \* async variant: closures of measureLayoutMetrics whose timer is set
    \* ---- chart aggregation and JSON export (PerformanceCharts.tsx 372-442)
    props,          \* the metrics prop of PerformanceCharts
    rendered,       \* the series handed to the charts by the last render
    isMobileIOS,    \* host: isMobileIOS()
    exports,        \* the JSON exports made so far: what was passed, the blob, its delivery
    \* ---- PDF export (PerformanceCharts.tsx 444-509)
    pdfJobs,        \* the invocations of exportToPdf so far
    errorMessage,   \* useState<string | null>: "" stands for null
    errorTimers,    \* firing times of the pending setTimeout(() => setErrorMessage(null), 3000)
    canvasHeights   \* host: the image height (mm) each chart region of the view gives

lifeVars == <<mounted, memTimer, perfTimer, cpuWorker, queued, terminated, glLost, dropped>>
chartVars == <<chartData, baseTime, hasMemory, gpuContext, memDue, perfDue, lifeVars,
               gpuSampled>>
workerVars == <<workerLoaded, lastTime, lastUsage, workerDue, runs, pendingRuns, inbox,
                readings, emitted>>
winVars == <<memoryTimeSeries, prevTimeSeries, winDue>>
hostVars == <<variant, hostData, navPresent, observer, layoutShifts>>
collVars == <<metrics, pc, report, pending>>
pdfVars == <<pdfJobs, errorMessage, errorTimers, canvasHeights>>
aggVars == <<props, rendered, isMobileIOS, exports, pdfVars>>
vars == <<now, lastOp, chartVars, workerVars, winVars, hostVars, collVars, aggVars>>
\* the state of the other components, untouched by the full-history chart
notChart == <<winVars, hostVars, collVars, aggVars>>

(***************************************************************************)
(* Program constants.                                                      *)
(***************************************************************************)
SampleInterval == 1000      \* setInterval(..., 1000)
WorkerDelay == 1000         \* setTimeout(calculateCPULoad, 1000)
BytesPerMB == 1048576       \* 1024 * 1024

(***************************************************************************)
(* Bounds of the model.                                                    *)
(***************************************************************************)
MaxClockSteps == 4      \* advances of the wall clock in one behaviour
MaxRuns == 2            \* benchmark runs of the worker

ClockStep == SampleInterval \div 2   \* one advance of the wall clock (ms)
BenchTimes == {0, ClockStep}     \* measured duration of the busy loop (ms)
GpuTimes == {5, 20}             \* measured duration of the buffer upload (ms)
\* A byte count, which may exceed 32 bits, is kept as whole mebibytes and the
\* remaining bytes: Bytes(mb, rest) is mb * 1048576 + rest, rest < 1048576.
Bytes(mb, rest) == [mb |-> mb, rest |-> rest]

\* performance.memory.usedJSHeapSize: 1572864 bytes
UsedBytes == {Bytes(1, 524288)}
\* performance.memory.totalJSHeapSize: 209715200 bytes
TotalBytes == {Bytes(200, 0)}

(***************************************************************************)
(* JavaScript numbers produced by division: an exact fraction in lowest    *)
(* terms, or NaN.                                                          *)
(***************************************************************************)
RECURSIVE GCD(_, _)
GCD(a, b) == IF b = 0 THEN a ELSE GCD(b, a % b)

NaN == [nan |-> TRUE, num |-> 0, den |-> 1]
Num(n, d) == LET g == GCD(n, d) IN [nan |-> FALSE, num |-> n \div g, den |-> d \div g]
Int2Num(n) == [nan |-> FALSE, num |-> n, den |-> 1]

\* a / b in JavaScript for a, b >= 0: 0/0 is NaN, x/0 is Infinity (kept as "inf")
\* Math.min(100, (a / b) * 100)
MinHundredRatio(a, b) ==
    IF b = 0
    THEN IF a = 0 THEN NaN ELSE Int2Num(100)
    ELSE IF a * 100 > 100 * b THEN Int2Num(100) ELSE Num(a * 100, b)

\* mutant: the weights are exchanged
SmoothSwapped(usage, last) ==
    IF usage.nan \/ last.nan THEN NaN
    ELSE Num(9 * usage.num * last.den + last.num * usage.den, 10 * usage.den * last.den)

\* usage * 0.1 + last * 0.9
Smooth(usage, last) ==
    IF usage.nan \/ last.nan THEN NaN
    ELSE Num(usage.num * last.den + 9 * last.num * usage.den, 10 * usage.den * last.den)

\* Math.round(bytes / (1024 * 1024)) for bytes >= 0
RoundMB(bytes) == bytes.mb + (IF 2 * bytes.rest >= BytesPerMB THEN 1 ELSE 0)

(***************************************************************************)
(* Chart component, full-history variant.                                  *)
(***************************************************************************)
EmptyChartData == [memoryTimeSeries |-> <<>>, performanceData |-> <<>>]

\* no state update is waiting for a render
NoUpdate == [set |-> FALSE, cpuWorker |-> "null", gpuContext |-> "null"]

\* setCpuWorker(worker); setGpuContext(gl): applied together by the next render
StateUpdate(gl) == [set |-> TRUE, cpuWorker |-> "worker", gpuContext |-> gl]

(***************************************************************************)
(* Initial states.  Each specification starts one component and leaves the *)
(* others in their idle state.                                             *)
(***************************************************************************)
WorkerIdle ==
    /\ workerLoaded = FALSE
    /\ lastTime = 0
    /\ lastUsage = Int2Num(0)
    /\ workerDue = 0
    /\ runs = 0
    /\ pendingRuns = 0
    /\ inbox = <<>>
    /\ readings = <<>>
    /\ emitted = <<>>

ChartIdle ==
    /\ chartData = EmptyChartData
    /\ baseTime = 0
    /\ gpuContext = "null"
    /\ memDue = SampleInterval
    /\ perfDue = SampleInterval
    /\ mounted = FALSE
    /\ memTimer = 0
    /\ perfTimer = 0
    /\ cpuWorker = "null"
    /\ queued = NoUpdate
    /\ terminated = FALSE
    /\ glLost = FALSE
    /\ dropped = 0
    /\ gpuSampled = FALSE

WinIdle ==
    /\ memoryTimeSeries = <<>>
    /\ prevTimeSeries = <<>>
    /\ winDue = SampleInterval

\* const newDataPoint = {timestamp, usedHeap, totalHeap}
MemoryDataPoint(t, used, total) ==
    [timestamp |-> t, usedHeap |-> RoundMB(used), totalHeap |-> RoundMB(total)]

\* mutant: the benchmark is run and timed without looking at the context
estimateGPUUsageUnguarded(gl, timeTaken) ==
    IF timeTaken * 10000 > 100 * 1667 THEN Int2Num(100)
    ELSE Num(timeTaken * 10000, 1667)

\* if (!gl) return 0; ... return Math.min(100, (timeTaken / 16.67) * 100)
estimateGPUUsage(gl, timeTaken) ==
    IF gl = "null" THEN Int2Num(0)
    ELSE IF timeTaken * 10000 > 100 * 1667 THEN Int2Num(100)
         ELSE Num(timeTaken * 10000, 1667)

\* const newDataPoint: PerformanceDataPoint = {..., cpuUsage: 0, gpuUsage}
PerformanceDataPoint(t, used, total, gpu) ==
    [timestamp |-> t, usedHeap |-> RoundMB(used), totalHeap |-> RoundMB(total),
     cpuUsage |-> Int2Num(0), gpuUsage |-> gpu]

\* (prev) => ({...prev, memoryTimeSeries: [...prev.memoryTimeSeries, newDataPoint]})
AppendMemoryPoint(prev, newDataPoint) ==
    [prev EXCEPT !.memoryTimeSeries = Append(@, newDataPoint)]

\* mutant: the new point is put at the head of the series
PrependPerformancePoint(prev, newDataPoint) ==
    [prev EXCEPT !.performanceData = <<newDataPoint>> \o @]

\* (prev) => ({...prev, performanceData: [...prev.performanceData, newDataPoint]})
AppendPerformancePoint(prev, newDataPoint) ==
    [prev EXCEPT !.performanceData = Append(@, newDataPoint)]

\* mutant: the value is written to every point of the series
PatchEveryPoint(prev, data) ==
    [prev EXCEPT !.performanceData =
        [i \in 1..Len(@) |-> [@[i] EXCEPT !.cpuUsage = data]]]

\* the updater of cpuWorker.onmessage: patch the last point, or return prev
PatchLastPoint(prev, data) ==
    LET n == Len(prev.performanceData) IN
    IF n > 0
    THEN [prev EXCEPT !.performanceData =
            Append(SubSeq(@, 1, n - 1), [@[n] EXCEPT !.cpuUsage = data])]
    ELSE prev

\* the wall clock advances (environment)
AdvanceClock ==
    /\ now + ClockStep <= MaxClockSteps * ClockStep
    /\ now' = now + ClockStep
    /\ lastOp' = "AdvanceClock"
    /\ UNCHANGED <<chartVars, workerVars, notChart>>

\* mutant: the point is appended without looking for the heap API
updateMemoryUsageUnguarded ==
    /\ memTimer > 0
    /\ now >= memDue
    /\ memDue' = now + SampleInterval
    /\ \E used \in UsedBytes, total \in TotalBytes :
            chartData' = AppendMemoryPoint(chartData, MemoryDataPoint(now, used, total))
    /\ lastOp' = "updateMemoryUsage"
    /\ UNCHANGED <<now, baseTime, hasMemory, gpuContext, perfDue, lifeVars, gpuSampled,
                   workerVars, notChart>>

\* the memory setInterval fires: updateMemoryUsage
updateMemoryUsage ==
    /\ memTimer > 0
    /\ now >= memDue
    /\ memDue' = now + SampleInterval
    /\ IF hasMemory
       THEN \E used \in UsedBytes, total \in TotalBytes :
                chartData' = AppendMemoryPoint(chartData, MemoryDataPoint(now, used, total))
       ELSE chartData' = chartData
    /\ lastOp' = "updateMemoryUsage"
    /\ UNCHANGED <<now, baseTime, hasMemory, gpuContext, perfDue, lifeVars, gpuSampled,
                   workerVars, notChart>>

\* the performance setInterval fires: updatePerformanceData
updatePerformanceData ==
    /\ perfTimer > 0
    /\ now >= perfDue
    /\ perfDue' = now + SampleInterval
    /\ IF hasMemory
       THEN \E used \in UsedBytes, total \in TotalBytes, timeTaken \in GpuTimes :
                chartData' = AppendPerformancePoint(chartData,
                    PerformanceDataPoint(now, used, total,
                                         estimateGPUUsage(gpuContext, timeTaken)))
       ELSE chartData' = chartData
    /\ gpuSampled' = (gpuSampled \/ (hasMemory /\ gpuContext # "null"))
    /\ lastOp' = "updatePerformanceData"
    /\ UNCHANGED <<now, baseTime, hasMemory, gpuContext, memDue, lifeVars, workerVars,
                   notChart>>

\* cpuWorker.onmessage: the oldest undelivered message is handled
onmessage ==
    /\ cpuWorker # "null"
    /\ inbox # <<>>
    /\ chartData' = PatchLastPoint(chartData, Head(inbox))
    /\ inbox' = Tail(inbox)
    /\ lastOp' = "onmessage"
    /\ UNCHANGED <<now, baseTime, hasMemory, gpuContext, memDue, perfDue, lifeVars,
                   gpuSampled, workerLoaded, lastTime, lastUsage, workerDue, runs,
                   pendingRuns, readings, emitted, notChart>>

\* mutant: the memory-only series is left as it is
clearHistoryKeepsMemory ==
    /\ mounted
    /\ chartData' = [chartData EXCEPT !.performanceData = <<>>]
    /\ baseTime' = now
    /\ lastOp' = "clearHistory"
    /\ UNCHANGED <<now, hasMemory, gpuContext, memDue, perfDue, lifeVars, gpuSampled,
                   workerVars, notChart>>

\* mutant: the time origin is rebased and the series are kept
clearHistoryKeepsSeries ==
    /\ mounted
    /\ chartData' = chartData
    /\ baseTime' = now
    /\ lastOp' = "clearHistory"
    /\ UNCHANGED <<now, hasMemory, gpuContext, memDue, perfDue, lifeVars, gpuSampled,
                   workerVars, notChart>>

\* clearHistory: both series emptied, time origin rebased
clearHistory ==
    /\ mounted
    /\ chartData' = EmptyChartData
    /\ baseTime' = now
    /\ lastOp' = "clearHistory"
    /\ UNCHANGED <<now, hasMemory, gpuContext, memDue, perfDue, lifeVars, gpuSampled,
                   workerVars, notChart>>

\* the performance effect, `if (!cpuWorker) return; ... setInterval(...)`: the
\* number of intervals a run of the effect sets, which its cleanup clears
PerformanceEffect(worker) == IF worker = "null" THEN 0 ELSE 1

\* the first render and the first run of the effects, in their order: the
\* memory interval is set; the worker and the context are created and handed
\* to setCpuWorker and setGpuContext; the performance effect sees no worker
Mount ==
    /\ ~mounted
    /\ ~terminated
    /\ mounted' = TRUE
    /\ baseTime' = now
    /\ memTimer' = memTimer + 1
    /\ memDue' = now + SampleInterval
    /\ \E gl \in {"gl", "null"} : queued' = StateUpdate(gl)
    /\ perfTimer' = perfTimer + PerformanceEffect(cpuWorker)
    /\ perfDue' = now + SampleInterval
    /\ lastOp' = "mount"
    /\ UNCHANGED <<now, chartData, hasMemory, gpuContext, cpuWorker, terminated, glLost,
                   dropped, gpuSampled, workerVars, notChart>>

\* mutant: the memory interval of the first run is not cleared
StrictRemountKeepsTimer ==
    /\ mounted
    /\ lastOp = "mount"
    /\ memTimer' = memTimer + 1
    /\ memDue' = now + SampleInterval
    /\ \E gl \in {"gl", "null"} : queued' = StateUpdate(gl)
    /\ perfTimer' = perfTimer - PerformanceEffect(cpuWorker) + PerformanceEffect(cpuWorker)
    /\ perfDue' = now + SampleInterval
    /\ lastOp' = "strictRemount"
    /\ UNCHANGED <<now, chartData, baseTime, hasMemory, gpuContext, mounted, cpuWorker,
                   terminated, glLost, dropped, gpuSampled, workerVars, notChart>>

\* <React.StrictMode> (main.tsx), development build: right after the mount
\* the cleanups of the effects run and the effects run again: the interval is
\* cleared and set anew, the worker terminated (its script not yet evaluated)
\* and another created, the context released and another created
StrictRemount ==
    /\ mounted
    /\ lastOp = "mount"
    /\ memTimer' = memTimer - 1 + 1
    /\ memDue' = now + SampleInterval
    /\ \E gl \in {"gl", "null"} : queued' = StateUpdate(gl)
    /\ perfTimer' = perfTimer - PerformanceEffect(cpuWorker) + PerformanceEffect(cpuWorker)
    /\ perfDue' = now + SampleInterval
    /\ lastOp' = "strictRemount"
    /\ UNCHANGED <<now, chartData, baseTime, hasMemory, gpuContext, mounted, cpuWorker,
                   terminated, glLost, dropped, gpuSampled, workerVars, notChart>>

\* the render that applies the queued state: cpuWorker and gpuContext change,
\* so the performance effect's cleanup runs and the effect runs again
Rerender ==
    /\ mounted
    /\ queued.set
    /\ cpuWorker' = queued.cpuWorker
    /\ gpuContext' = queued.gpuContext
    /\ queued' = NoUpdate
    /\ perfTimer' = perfTimer - PerformanceEffect(cpuWorker)
                              + PerformanceEffect(queued.cpuWorker)
    /\ perfDue' = now + SampleInterval
    /\ lastOp' = "rerender"
    /\ UNCHANGED <<now, chartData, baseTime, hasMemory, memDue, mounted, memTimer,
                   terminated, glLost, dropped, gpuSampled, workerVars, notChart>>

\* const gl = canvas.getContext("webgl"), the value the cleanup closes over:
\* the context state once rendered, the queued value before
CreatedContext == IF queued.set THEN queued.gpuContext ELSE gpuContext

\* mutant: the cleanup of the performance effect does not clear its interval
TeardownKeepsPerfTimer ==
    /\ mounted
    /\ mounted' = FALSE
    /\ memTimer' = memTimer - 1
    /\ perfTimer' = perfTimer
    /\ terminated' = TRUE
    /\ pendingRuns' = 0
    /\ \E ext \in BOOLEAN :
        glLost' = (CreatedContext # "null" /\ ext)
    /\ dropped' = Len(inbox)
    /\ inbox' = <<>>
    /\ lastOp' = "teardown"
    /\ UNCHANGED <<now, chartData, baseTime, hasMemory, gpuContext, memDue, perfDue,
                   cpuWorker, queued, gpuSampled, workerLoaded, lastTime, lastUsage,
                   workerDue, runs, readings, emitted, notChart>>

\* the chart view is unmounted: the cleanups of the three effects run, in
\* the order of the effects: clearInterval(intervalId); worker.terminate() and,
\* with a context and its extension, ext.loseContext(); clearInterval(intervalId)
\* (the performance effect returned a cleanup only if it saw a worker).
\* terminate() discards the worker's tasks and timers and empties the message
\* queue of the port the worker posts to.
Teardown ==
    /\ mounted
    /\ mounted' = FALSE
    /\ memTimer' = memTimer - 1
    /\ perfTimer' = perfTimer - PerformanceEffect(cpuWorker)
    /\ terminated' = TRUE
    /\ pendingRuns' = 0
    /\ \E ext \in BOOLEAN :   \* gl.getExtension("WEBGL_lose_context") is not null
        glLost' = (CreatedContext # "null" /\ ext)
    /\ dropped' = Len(inbox)
    /\ inbox' = <<>>
    /\ lastOp' = "teardown"
    /\ UNCHANGED <<now, chartData, baseTime, hasMemory, gpuContext, memDue, perfDue,
                   cpuWorker, queued, gpuSampled, workerLoaded, lastTime, lastUsage,
                   workerDue, runs, readings, emitted, notChart>>

(***************************************************************************)
(* CPU worker.                                                             *)
(***************************************************************************)
\* mutant: every run sets two timers
calculateCPULoadTwice(start, prevTime, bench, fired) ==
    LET end == start + bench
        timeDiff == end - prevTime
        usage == MinHundredRatio(end - start, timeDiff)
        smoothed == Smooth(usage, lastUsage)
    IN  /\ now' = end
        /\ lastTime' = end
        /\ lastUsage' = smoothed
        /\ inbox' = Append(inbox, smoothed)
        /\ readings' = Append(readings, usage)
        /\ emitted' = Append(emitted, smoothed)
        /\ workerDue' = end + WorkerDelay
        /\ pendingRuns' = pendingRuns - fired + 2
        /\ runs' = runs + 1

\* the body of calculateCPULoad, from `start` read off the clock: the loop
\* takes bench ms, then usage, lastTime, lastUsage, postMessage, setTimeout;
\* fired is 1 when a timer ran it (that timer is spent), 0 otherwise
calculateCPULoad(start, prevTime, bench, fired) ==
    LET end == start + bench
        timeDiff == end - prevTime
        usage == MinHundredRatio(end - start, timeDiff)
        smoothed == Smooth(usage, lastUsage)
    IN  /\ now' = end
        /\ lastTime' = end
        /\ lastUsage' = smoothed
        /\ inbox' = Append(inbox, smoothed)
        /\ readings' = Append(readings, usage)
        /\ emitted' = Append(emitted, smoothed)
        /\ workerDue' = end + WorkerDelay
        /\ pendingRuns' = pendingRuns - fired + 1
        /\ runs' = runs + 1

\* the worker script is evaluated: let lastTime = performance.now(); ...;
\* calculateCPULoad()
WorkerLoad ==
    /\ ~terminated
    /\ ~workerLoaded
    /\ workerLoaded' = TRUE
    /\ \E bench \in BenchTimes : calculateCPULoad(now, now, bench, 0)
    /\ lastOp' = "calculateCPULoad"
    /\ UNCHANGED <<chartVars, notChart>>

\* the worker's setTimeout fires: calculateCPULoad
WorkerTimeout ==
    /\ ~terminated
    /\ workerLoaded
    /\ pendingRuns > 0
    /\ now >= workerDue
    /\ runs < MaxRuns
    /\ \E bench \in BenchTimes : calculateCPULoad(now, lastTime, bench, 1)
    /\ lastOp' = "calculateCPULoad"
    /\ UNCHANGED <<workerLoaded, chartVars, notChart>>

(***************************************************************************)
(* Values of the metrics snapshot.  A field holds undefined, a number or a *)
(* string; numbers are fixed-point with one decimal (JsNumber(n) is n/10), *)
(* so that DOMHighResTimeStamp values keep a fraction.                     *)
(***************************************************************************)
Undefined == [t |-> "undefined", n |-> 0, s |-> ""]
JsNumber(n) == [t |-> "number", n |-> n, s |-> ""]
JsString(str) == [t |-> "string", n |-> 0, s |-> str]
Whole(k) == JsNumber(10 * k)

\* Math.round of a non-negative fixed-point number
MathRound(v) == Whole((v.n + 5) \div 10)

Digit(d) == <<"0", "1", "2", "3", "4", "5", "6", "7", "8", "9">>[d + 1]

RECURSIVE IntStr(_)
IntStr(k) == IF k < 10 THEN Digit(k) ELSE IntStr(k \div 10) \o Digit(k % 10)

\* String(x) inside a template literal
Show(v) ==
    CASE v.t = "undefined" -> "undefined"
      [] v.t = "string" -> v.s
      [] OTHER -> IF v.n % 10 = 0 THEN IntStr(v.n \div 10)
                  ELSE IntStr(v.n \div 10) \o "." \o Digit(v.n % 10)

\* x.toFixed(3) for x >= 0 given in ten-thousandths
ToFixed3(x) ==
    LET m == (x + 5) \div 10 IN
    IntStr(m \div 1000) \o "." \o Digit((m \div 100) % 10)
        \o Digit((m \div 10) % 10) \o Digit(m % 10)

\* (size / 1024).toFixed(1) for a fixed-point size
KBToFixed1(size) ==
    LET m == (2 * size.n + 1024) \div 2048 IN
    IntStr(m \div 10) \o "." \o Digit(m % 10)

(***************************************************************************)
(* Metrics collector.                                                      *)
(***************************************************************************)
MaxShifts == 2          \* layout-shift entries the host records
MaxPending == 1         \* measureLayoutMetrics timers pending at once

\* the host's entries; times in tenths of a millisecond
NavEntries ==
    { [navigationStart |-> 1000, domContentLoadedEventEnd |-> 1000, loadEventEnd |-> 1000],
      [navigationStart |-> 1000, domContentLoadedEventEnd |-> 3505, loadEventEnd |-> 6012] }
PaintEntries == { <<>>, <<0, 1806>>, <<1204, 1806>> }
HeapReadings ==
    { \* 104857600, 209715200 and 2147483648 bytes
      [usedJSHeapSize |-> Bytes(100, 0), totalJSHeapSize |-> Bytes(200, 0),
       jsHeapSizeLimit |-> Bytes(2048, 0)],
      \* 1572864, 3670015 and 2147483648 bytes
      [usedJSHeapSize |-> Bytes(1, 524288), totalJSHeapSize |-> Bytes(3, 524287),
       jsHeapSizeLimit |-> Bytes(2048, 0)] }
\* a resource's name is its URL, kept as the list name.split("/") yields
ResourceEntries ==
    { <<>>,
      << [name |-> <<"https:", "", "cdn", "app.js">>, initiatorType |-> "script",
          duration |-> 1234, transferSize |-> 2048],
         [name |-> <<"https:", "", "cdn", "img", "">>, initiatorType |-> "img",
          duration |-> 55, transferSize |-> 1536] >> }
\* layout-shift entries; value in ten-thousandths
ShiftKinds ==
    { [value |-> 1004, hadRecentInput |-> FALSE],
      [value |-> 2456, hadRecentInput |-> TRUE] }

EmptyTiming ==
    [totalLoadTime |-> Undefined, domContentLoaded |-> Undefined,
     firstPaint |-> Undefined, firstContentfulPaint |-> Undefined]
EmptyMemory ==
    [usedJSHeapSize |-> Undefined, totalJSHeapSize |-> Undefined,
     jsHeapSizeLimit |-> Undefined]
EmptyLayout == [cumulativeLayoutShift |-> Undefined]
\* constructor
EmptyMetrics ==
    [timing |-> EmptyTiming, memory |-> EmptyMemory, resources |-> <<>>,
     layout |-> EmptyLayout]

\* performance.getEntriesByType("paint")[i]?.startTime || "Not available"
PaintOrNotAvailable(paints, i) ==
    IF i <= Len(paints) /\ paints[i] # 0
    THEN JsNumber(paints[i])
    ELSE JsString("Not available")

\* mutant: the total is measured to domContentLoadedEventEnd
measurePageLoadToDcl(m) ==
    IF navPresent
    THEN [m EXCEPT !.timing =
            [totalLoadTime |->
                JsNumber(hostData.nav.domContentLoadedEventEnd
                         - hostData.nav.navigationStart),
             domContentLoaded |->
                JsNumber(hostData.nav.domContentLoadedEventEnd
                         - hostData.nav.navigationStart),
             firstPaint |-> PaintOrNotAvailable(hostData.paints, 1),
             firstContentfulPaint |-> PaintOrNotAvailable(hostData.paints, 2)]]
    ELSE m

\* measurePageLoad: this.metrics.timing is assigned only if navEntry exists
measurePageLoad(m) ==
    IF navPresent
    THEN [m EXCEPT !.timing =
            [totalLoadTime |->
                JsNumber(hostData.nav.loadEventEnd - hostData.nav.navigationStart),
             domContentLoaded |->
                JsNumber(hostData.nav.domContentLoadedEventEnd
                         - hostData.nav.navigationStart),
             firstPaint |-> PaintOrNotAvailable(hostData.paints, 1),
             firstContentfulPaint |-> PaintOrNotAvailable(hostData.paints, 2)]]
    ELSE m

\* mutant: Math.floor in place of Math.round
measureMemoryFloor(m) ==
    IF hasMemory
    THEN [m EXCEPT !.memory =
            [usedJSHeapSize |-> Whole(hostData.heap.usedJSHeapSize.mb),
             totalJSHeapSize |-> Whole(hostData.heap.totalJSHeapSize.mb),
             jsHeapSizeLimit |-> Whole(hostData.heap.jsHeapSizeLimit.mb)]]
    ELSE m

\* measureMemory: this.metrics.memory is assigned only if performance.memory exists
measureMemory(m) ==
    IF hasMemory
    THEN [m EXCEPT !.memory =
            [usedJSHeapSize |-> Whole(RoundMB(hostData.heap.usedJSHeapSize)),
             totalJSHeapSize |-> Whole(RoundMB(hostData.heap.totalJSHeapSize)),
             jsHeapSizeLimit |-> Whole(RoundMB(hostData.heap.jsHeapSizeLimit))]]
    ELSE m

\* resource.name.split("/").pop() || ""
LastSegment(url) == IF url = <<>> THEN "" ELSE url[Len(url)]

\* measureResources
measureResources(m) ==
    [m EXCEPT !.resources =
        [i \in 1..Len(hostData.resources) |->
            [name |-> JsString(LastSegment(hostData.resources[i].name)),
             type |-> JsString(hostData.resources[i].initiatorType),
             duration |-> MathRound(JsNumber(hostData.resources[i].duration)),
             size |-> Whole(hostData.resources[i].transferSize)]]]

RECURSIVE SumValues(_)
SumValues(entries) ==
    IF entries = <<>> THEN 0 ELSE Head(entries).value + SumValues(Tail(entries))

\* the observer callback's loop: entries without hadRecentInput are summed
QualifyingSum(entries) ==
    SumValues(SelectSeq(entries, LAMBDA e : ~e.hadRecentInput))

\* measureLayoutMetrics, lines 96-101: layoutShifts.reduce(...).toFixed(3)
measureLayoutMetricsSync(m) ==
    [m EXCEPT !.layout =
        [cumulativeLayoutShift |-> JsString(ToFixed3(SumValues(layoutShifts)))]]

NotSupported == [cumulativeLayoutShift |-> JsString("Not supported")]

\* measureLayoutMetrics, lines 239-279, up to its return: the snapshot is
\* written only on the two "Not supported" paths
measureLayoutMetricsAsync(m) ==
    IF observer = "ok" THEN m ELSE [m EXCEPT !.layout = NotSupported]

\* generateReport: the interpolated values of the returned text
generateReport(m) ==
    [totalLoadTime |-> Show(m.timing.totalLoadTime) \o "ms",
     domContentLoaded |-> Show(m.timing.domContentLoaded) \o "ms",
     firstPaint |-> Show(m.timing.firstPaint) \o "ms",
     firstContentfulPaint |-> Show(m.timing.firstContentfulPaint) \o "ms",
     usedJSHeapSize |-> Show(m.memory.usedJSHeapSize) \o "MB",
     totalJSHeapSize |-> Show(m.memory.totalJSHeapSize) \o "MB",
     jsHeapSizeLimit |-> Show(m.memory.jsHeapSizeLimit) \o "MB",
     resources |->
        [i \in 1..Len(m.resources) |->
            Show(m.resources[i].name) \o " (" \o Show(m.resources[i].type) \o "): "
                \o Show(m.resources[i].duration) \o "ms, "
                \o KBToFixed1(m.resources[i].size) \o "KB"],
     cumulativeLayoutShift |-> Show(m.layout.cumulativeLayoutShift)]

NoReport == [totalLoadTime |-> "", domContentLoaded |-> "", firstPaint |-> "",
             firstContentfulPaint |-> "", usedJSHeapSize |-> "",
             totalJSHeapSize |-> "", jsHeapSizeLimit |-> "", resources |-> <<>>,
             cumulativeLayoutShift |-> ""]

NotRendered == [timingData |-> <<>>, memoryData |-> <<>>, resourceData |-> <<>>,
                done |-> FALSE]

PdfIdle ==
    /\ pdfJobs = <<>>
    /\ errorMessage = ""
    /\ errorTimers = <<>>
    /\ canvasHeights = <<>>

AggIdle ==
    /\ props = EmptyMetrics
    /\ rendered = NotRendered
    /\ isMobileIOS = FALSE
    /\ exports = <<>>
    /\ PdfIdle

\* new BrowserPerformanceTest() (handlePerformanceTest, part_002 line 119)
NewCollector ==
    /\ pc # "awaiting"
    /\ pending = <<>>
    /\ metrics' = EmptyMetrics
    /\ pc' = "idle"
    /\ report' = NoReport
    /\ lastOp' = "constructor"
    /\ UNCHANGED <<now, chartVars, workerVars, winVars, hostVars, pending, aggVars>>

\* runFullTest is called: measurePageLoad runs to its end, then the await
RunFullTestCall ==
    /\ pc # "awaiting"
    /\ Len(pending) < MaxPending
    /\ metrics' = measurePageLoad(metrics)
    /\ pc' = "awaiting"
    /\ lastOp' = "measurePageLoad"
    /\ UNCHANGED <<now, chartVars, workerVars, winVars, hostVars, report, pending, aggVars>>

\* runFullTest resumes after the await and runs to its return
RunFullTestResume ==
    /\ pc = "awaiting"
    /\ LET m1 == measureResources(measureMemory(metrics))
           m2 == IF variant = "sync" THEN measureLayoutMetricsSync(m1)
                 ELSE measureLayoutMetricsAsync(m1)
       IN  /\ metrics' = m2
           /\ report' = generateReport(m2)
    /\ pending' =
         IF variant = "async" /\ observer = "ok"
         THEN Append(pending, [clsValue |-> 0, queue |-> layoutShifts])
         ELSE pending
    /\ pc' = "resolved"
    /\ lastOp' = "runFullTest"
    /\ UNCHANGED <<now, chartVars, workerVars, winVars, hostVars, aggVars>>

\* the PerformanceObserver callback of one pending measurement is invoked
\* with the entries queued for it
ObserverCallback ==
    /\ \E i \in 1..Len(pending) :
        /\ pending[i].queue # <<>>
        /\ pending' = [pending EXCEPT
                ![i] = [clsValue |-> @.clsValue + QualifyingSum(@.queue),
                        queue |-> <<>>]]
    /\ lastOp' = "observerCallback"
    /\ UNCHANGED <<now, chartVars, workerVars, winVars, hostVars, metrics, pc, report, aggVars>>

\* the setTimeout(..., 0) callback of the oldest pending measurement:
\* observer.disconnect(); this.metrics.layout = {clsValue.toFixed(3)}
LayoutTimeout ==
    /\ pending # <<>>
    /\ metrics' = [metrics EXCEPT !.layout =
            [cumulativeLayoutShift |-> JsString(ToFixed3(Head(pending).clsValue))]]
    /\ pending' = Tail(pending)
    /\ lastOp' = "layoutTimeout"
    /\ UNCHANGED <<now, chartVars, workerVars, winVars, hostVars, pc, report, aggVars>>

\* host: the page's layout shifts, recorded by a host that has the
\* layout-shift capability; connected observers get the entry queued
HostLayoutShift ==
    /\ observer = "ok"
    /\ pc # "awaiting"
    /\ Len(layoutShifts) < MaxShifts
    /\ \E e \in ShiftKinds :
        /\ layoutShifts' = Append(layoutShifts, e)
        /\ pending' = [i \in 1..Len(pending) |->
                          [pending[i] EXCEPT !.queue = Append(@, e)]]
    /\ lastOp' = "hostLayoutShift"
    /\ UNCHANGED <<now, chartVars, workerVars, winVars, variant, hostData,
                   navPresent, observer, metrics, pc, report, aggVars>>

\* host: the global performance object is replaced between invocations (a
\* test fixture, a polyfill): the navigation entry or the heap API comes or goes
HostCapabilityChange ==
    /\ pc # "awaiting"
    /\ \E n \in BOOLEAN, h \in BOOLEAN :
        /\ <<n, h>> # <<navPresent, hasMemory>>
        /\ navPresent' = n
        /\ hasMemory' = h
    /\ lastOp' = "hostCapabilityChange"
    /\ UNCHANGED <<now, baseTime, chartData, gpuContext, memDue, perfDue, lifeVars,
                   gpuSampled, workerVars, winVars, variant, hostData, observer,
                   layoutShifts, collVars, aggVars>>

CollIdle ==
    /\ variant = "sync"
    /\ hostData = [nav |-> CHOOSE e \in NavEntries : TRUE, paints |-> <<>>,
                   heap |-> CHOOSE h \in HeapReadings : TRUE, resources |-> <<>>]
    /\ navPresent = FALSE
    /\ observer = "none"
    /\ layoutShifts = <<>>
    /\ metrics = EmptyMetrics
    /\ pc = "idle"
    /\ report = NoReport
    /\ pending = <<>>

\* a collector just constructed, on any host
InitCollector ==
    /\ now = 0
    /\ lastOp = "init"
    /\ hasMemory \in BOOLEAN
    /\ ChartIdle
    /\ WorkerIdle
    /\ WinIdle
    /\ variant \in {"sync", "async"}
    /\ hostData \in [nav : NavEntries, paints : PaintEntries,
                     heap : HeapReadings, resources : ResourceEntries]
    /\ navPresent \in BOOLEAN
    /\ observer \in {"none", "ok", "throws"}
    /\ layoutShifts = <<>>
    /\ metrics = EmptyMetrics
    /\ pc = "idle"
    /\ report = NoReport
    /\ pending = <<>>
    /\ AggIdle

NextCollector ==
    \/ NewCollector
    \/ RunFullTestCall
    \/ RunFullTestResume
    \/ ObserverCallback
    \/ LayoutTimeout
    \/ HostLayoutShift
    \/ HostCapabilityChange

SpecCollector == InitCollector /\ [][NextCollector]_vars

(***************************************************************************)
(* Chart aggregation and JSON export.                                      *)
(***************************************************************************)
TopN == 10              \* .slice(0, 10)
MaxResources == 11      \* resources in a snapshot
MaxShortList == 4       \* lists up to this length take every duration
MaxExports == 1         \* JSON exports in one behaviour

Durations == {5, 50, 100}       \* resource durations (ms), short lists
LongDurations == {5, 100}       \* resource durations (ms), longer lists

\* the i-th resource discovered, named by its place
Resource(i, d) ==
    [name |-> JsString("r" \o IntStr(i)), type |-> JsString("script"),
     duration |-> Whole(d), size |-> Whole(1024 * i)]

ResourceListsOf(lens, durs) ==
    UNION { { [i \in 1..n |-> Resource(i, ds[i])] : ds \in [1..n -> durs] } : n \in lens }

FullTiming ==
    [totalLoadTime |-> JsNumber(5012), domContentLoaded |-> JsNumber(2505),
     firstPaint |-> JsNumber(1204), firstContentfulPaint |-> JsString("Not available")]
FullMemory ==
    [usedJSHeapSize |-> Whole(100), totalJSHeapSize |-> Whole(200),
     jsHeapSizeLimit |-> Whole(2048)]

\* the snapshots a chart may be given: short resource lists with every
\* combination of the other groups, longer lists with all groups filled
Snapshots ==
    [timing : {EmptyTiming, FullTiming},
     memory : {EmptyMemory, FullMemory},
     resources : ResourceListsOf(0..MaxShortList, Durations),
     layout : {[cumulativeLayoutShift |-> JsString("0.100")]}]
    \cup
    [timing : {FullTiming},
     memory : {FullMemory},
     resources : ResourceListsOf((MaxShortList + 1)..MaxResources, LongDurations),
     layout : {[cumulativeLayoutShift |-> JsString("0.100")]}]

\* x || 0 for a number or undefined
OrZero(v) == IF v.t = "number" /\ v.n # 0 THEN v ELSE Whole(0)

\* typeof x === "number" ? x : 0
NumberOrZero(v) == IF v.t = "number" THEN v ELSE Whole(0)

\* const timingData = [...].map((item) => ({...item, time: Math.round(item.time)}))
timingData(m) ==
    << [name |-> JsString("Total Load"), time |-> MathRound(OrZero(m.timing.totalLoadTime))],
       [name |-> JsString("DOM Content"), time |-> MathRound(OrZero(m.timing.domContentLoaded))],
       [name |-> JsString("First Paint"), time |-> MathRound(NumberOrZero(m.timing.firstPaint))],
       [name |-> JsString("First Contentful"),
        time |-> MathRound(NumberOrZero(m.timing.firstContentfulPaint))] >>

\* const memoryData = [{name, value: metrics.memory.usedJSHeapSize}, ...]
memoryData(m) ==
    << [name |-> JsString("Used Heap"), value |-> m.memory.usedJSHeapSize],
       [name |-> JsString("Total Heap"), value |-> m.memory.totalJSHeapSize],
       [name |-> JsString("Heap Limit"), value |-> m.memory.jsHeapSizeLimit] >>

\* mutant: an element is put before the elements it ties with
RECURSIVE InsertBeforeTies(_, _)
InsertBeforeTies(sorted, x) ==
    IF sorted = <<>> THEN <<x>>
    ELSE IF Head(sorted).duration.n > x.duration.n
         THEN <<Head(sorted)>> \o InsertBeforeTies(Tail(sorted), x)
         ELSE <<x>> \o sorted

\* one step of a stable sort with the comparator (a, b) => b.duration - a.duration:
\* x, which followed every element of `sorted` in the input, goes after all
\* elements whose duration is not smaller
RECURSIVE InsertByDuration(_, _)
InsertByDuration(sorted, x) ==
    IF sorted = <<>> THEN <<x>>
    ELSE IF Head(sorted).duration.n >= x.duration.n
         THEN <<Head(sorted)>> \o InsertByDuration(Tail(sorted), x)
         ELSE <<x>> \o sorted

\* Array.prototype.sort((a, b) => b.duration - a.duration), which is stable
RECURSIVE SortByDuration(_)
SortByDuration(list) ==
    IF list = <<>> THEN <<>>
    ELSE InsertByDuration(SortByDuration(SubSeq(list, 1, Len(list) - 1)),
                          list[Len(list)])

\* Array.prototype.slice(0, end)
SliceFromStart(list, end) ==
    SubSeq(list, 1, IF Len(list) < end THEN Len(list) ELSE end)

\* const resourceData = metrics.resources.slice(0, 10).sort(...)
resourceData(m) == SortByDuration(SliceFromStart(m.resources, TopN))

TwoDigits(k) == Digit(k \div 10) \o Digit(k % 10)

\* new Date(t).toISOString() for an instant within the first hour of the epoch
ToISOString(t) ==
    "1970-01-01T00:" \o TwoDigits((t \div 60000) % 60) \o ":"
        \o TwoDigits((t \div 1000) % 60) \o "."
        \o Digit((t \div 100) % 10) \o Digit((t \div 10) % 10) \o Digit(t % 10) \o "Z"

\* JSON.stringify of a string or a finite number: a JSON string or number
JsonValue(v) ==
    IF v.t = "number"
    THEN [json |-> "number", n |-> v.n, s |-> ""]
    ELSE [json |-> "string", n |-> 0, s |-> v.s]

JsonNull == [json |-> "null", n |-> 0, s |-> ""]

\* JSON.stringify of an object of primitives: a property whose value is
\* undefined is left out
JsonObject(o) ==
    [k \in {key \in DOMAIN o : o[key].t # "undefined"} |-> JsonValue(o[k])]

\* JSON.stringify of an array of such objects
JsonArray(a) == [i \in 1..Len(a) |-> JsonObject(a[i])]

\* JSON.stringify of a number of the combined series: NaN becomes null
JsonFraction(x) ==
    IF x.nan THEN JsonNull ELSE [json |-> "fraction", num |-> x.num, den |-> x.den]

\* JSON.stringify of a PerformanceDataPoint
JsonPoint(point) ==
    [timestamp |-> point.timestamp, usedHeap |-> point.usedHeap,
     totalHeap |-> point.totalHeap, cpuUsage |-> JsonFraction(point.cpuUsage),
     gpuUsage |-> JsonFraction(point.gpuUsage)]

\* JSON.stringify(exportData, null, 2): the JSON value the text denotes
JSONStringify(exportData) ==
    [timestamp |-> JsonValue(exportData.timestamp),
     timingMetrics |-> JsonArray(exportData.timingMetrics),
     memoryData |-> JsonArray(exportData.memoryData),
     resourceData |-> JsonArray(exportData.resourceData),
     performanceData |->
        [i \in 1..Len(exportData.performanceData) |->
            JsonPoint(exportData.performanceData[i])]]

JsNull == [t |-> "null", n |-> 0, s |-> ""]

\* JSON.parse of a JSON string, number or null
ParseValue(x) ==
    CASE x.json = "number" -> JsNumber(x.n)
      [] x.json = "string" -> JsString(x.s)
      [] OTHER -> JsNull

ParseObject(o) == [k \in DOMAIN o |-> ParseValue(o[k])]

ParseArray(a) == [i \in 1..Len(a) |-> ParseObject(a[i])]

ParseFraction(x) == IF x.json = "null" THEN JsNull ELSE Num(x.num, x.den)

ParsePoint(point) ==
    [timestamp |-> point.timestamp, usedHeap |-> point.usedHeap,
     totalHeap |-> point.totalHeap, cpuUsage |-> ParseFraction(point.cpuUsage),
     gpuUsage |-> ParseFraction(point.gpuUsage)]

\* JSON.parse of the exported text
JSONParse(json) ==
    [timestamp |-> ParseValue(json.timestamp),
     timingMetrics |-> ParseArray(json.timingMetrics),
     memoryData |-> ParseArray(json.memoryData),
     resourceData |-> ParseArray(json.resourceData),
     performanceData |->
        [i \in 1..Len(json.performanceData) |->
            ParsePoint(json.performanceData[i])]]

\* the first render of PerformanceCharts: the three series are computed from the
\* prop (later renders compute the same values from the same prop)
Render ==
    /\ ~rendered.done
    /\ rendered' = [timingData |-> timingData(props), memoryData |-> memoryData(props),
                    resourceData |-> resourceData(props), done |-> TRUE]
    /\ lastOp' = "render"
    /\ UNCHANGED <<now, chartVars, workerVars, winVars, hostVars, collVars,
                   props, isMobileIOS, exports, pdfVars>>

\* a call on the host made while a blob is delivered
HostCall(op, arg) == [op |-> op, arg |-> arg]

\* mutant: the object URL is revoked before the link is clicked
DeliverBlobRevokeFirst(ios, name) ==
    IF ios
    THEN << HostCall("createObjectURL", ""), HostCall("window.open", "_blank") >>
    ELSE << HostCall("createObjectURL", ""), HostCall("revokeObjectURL", ""),
            HostCall("link.click", name) >>

\* exportToJson, lines 426-441: the host calls made before the handler returns
DeliverBlob(ios, name) ==
    IF ios
    THEN << HostCall("createObjectURL", ""), HostCall("window.open", "_blank") >>
    ELSE << HostCall("createObjectURL", ""), HostCall("link.click", name),
            HostCall("revokeObjectURL", "") >>

\* `performance-data-${new Date().toISOString()}.json`
DownloadName(t) == "performance-data-" \o ToISOString(t) \o ".json"

\* exportToJson: the click handler, run after a render
exportToJson ==
    /\ rendered.done
    /\ Len(exports) < MaxExports
    /\ LET exportData ==
            [timestamp |-> JsString(ToISOString(now)),
             timingMetrics |-> rendered.timingData,
             memoryData |-> rendered.memoryData,
             resourceData |-> rendered.resourceData,
             performanceData |-> chartData.performanceData]
       IN exports' = Append(exports,
            [passed |-> exportData,
             blob |-> JSONStringify(exportData),
             opened |-> isMobileIOS,
             download |-> IF isMobileIOS THEN "" ELSE DownloadName(now),
             calls |-> DeliverBlob(isMobileIOS, DownloadName(now)),
             url |-> IF isMobileIOS THEN "live" ELSE "revoked"])
    /\ lastOp' = "exportToJson"
    /\ UNCHANGED <<now, chartVars, workerVars, winVars, hostVars, collVars,
                   props, rendered, isMobileIOS, pdfVars>>

\* setTimeout(() => URL.revokeObjectURL(url), 100) fires
RevokeTimeout ==
    /\ \E i \in 1..Len(exports) :
        /\ exports[i].url = "live"
        /\ exports' = [exports EXCEPT
                ![i].url = "revoked",
                ![i].calls = Append(@, HostCall("revokeObjectURL", ""))]
    /\ lastOp' = "revokeObjectURL"
    /\ UNCHANGED <<now, chartVars, workerVars, winVars, hostVars, collVars,
                   props, rendered, isMobileIOS, pdfVars>>

\* a chart mounted with any snapshot, not yet rendered
InitAggregator ==
    /\ now = 0
    /\ lastOp = "init"
    /\ hasMemory = FALSE
    /\ ChartIdle
    /\ WorkerIdle
    /\ WinIdle
    /\ CollIdle
    /\ props \in Snapshots
    /\ rendered = NotRendered
    /\ isMobileIOS \in BOOLEAN
    /\ exports = <<>>
    /\ PdfIdle

NextAggregator ==
    \/ Render
    \/ exportToJson
    \/ RevokeTimeout

SpecAggregator == InitAggregator /\ [][NextAggregator]_vars

(***************************************************************************)
(* PDF export.  Each invocation of exportToPdf is a job: it waits for the  *)
(* rasterization (html2canvas) of one chart region at a time.              *)
(***************************************************************************)
ChartRegions == 4       \* elements of class "chart-container" in the view
MaxPdfExports == 2      \* invocations of exportToPdf in one behaviour
MaxPdfClockSteps == 3   \* advances of the clock while exports are watched

BannerTime == 3000      \* setTimeout(() => setErrorMessage(null), 3000)
PdfClockStep == BannerTime \div 2    \* one advance of that clock (ms)

\* the page layout of exportToPdf, in mm
PageHeight == 297       \* new jsPDF("p", "mm", "a4"): pageSize.getHeight()
PageTop == 10           \* let currentPosition = 10; currentPosition = 10 on a new page
HeaderHeight == 20      \* the title and the timestamp: currentPosition += 10, twice
CaptionStep == 7        \* after the chart title: currentPosition += 7
ImageGap == 10          \* after the image: currentPosition += imgHeight + 10
\* (canvas.height * imgWidth) / canvas.width of the regions of a view: all
\* of them wide, or the first one tall
Layouts == { [r \in 1..ChartRegions |-> 100],
             [r \in 1..ChartRegions |-> IF r = 1 THEN 265 ELSE 100] }

FailedMessage == "Failed to generate PDF. Please try again."

\* pdf.save(`performance-report-${new Date().toISOString()}.pdf`)
ReportName(t) == "performance-report-" \o ToISOString(t) \o ".pdf"

\* mutant: a failed region is skipped and the loop goes on
RasterFailedSkips(j) ==
    /\ pdfJobs[j].pc = "awaiting"
    /\ pdfJobs' = [pdfJobs EXCEPT ![j] =
            IF @.region < ChartRegions
            THEN [@ EXCEPT !.failed = pdfJobs[j].region, !.failedAt = now,
                           !.region = @ + 1,
                           !.rasterized = Append(@, pdfJobs[j].region + 1)]
            ELSE [@ EXCEPT !.failed = pdfJobs[j].region, !.failedAt = now,
                           !.pc = "done",
                           !.output = IF isMobileIOS THEN "dataurlnewwindow"
                                      ELSE ReportName(now)]]
    /\ errorMessage' = FailedMessage
    /\ errorTimers' = Append(errorTimers, now + BannerTime)

\* html2canvas rejects: the catch block of exportToPdf (failed and failedAt
\* record the region whose rasterization was rejected, and when)
RasterFailed(j) ==
    /\ pdfJobs[j].pc = "awaiting"
    /\ pdfJobs' = [pdfJobs EXCEPT ![j].pc = "failed", ![j].failed = pdfJobs[j].region,
                                  ![j].failedAt = now]
    /\ errorMessage' = FailedMessage
    /\ errorTimers' = Append(errorTimers, now + BannerTime)

\* a job of exportToPdf at its first await, nothing placed yet
PdfJob ==
    [pc |-> "awaiting", region |-> 1, rasterized |-> <<1>>, images |-> 0,
     output |-> "none", failed |-> 0, failedAt |-> 0, height |-> 0,
     currentPosition |-> PageTop + HeaderHeight, page |-> 1, top |-> 0]

\* a job that returned at once: no charts container
PdfReturned ==
    [pc |-> "returned", region |-> 0, rasterized |-> <<>>, images |-> 0,
     output |-> "none", failed |-> 0, failedAt |-> 0, height |-> 0,
     currentPosition |-> 0, page |-> 0, top |-> 0]

\* lines 473-494 for the canvas of the awaited region: a new page if
\* currentPosition + imgHeight exceeds the page height; the caption; the image
\* at currentPosition (top and height record where the last image was put)
PlaceImage(job) ==
    LET imgHeight == canvasHeights[job.region]
        newPage == job.currentPosition + imgHeight > PageHeight
        top == (IF newPage THEN PageTop ELSE job.currentPosition) + CaptionStep
    IN  [job EXCEPT !.page = IF newPage THEN @ + 1 ELSE @,
                    !.top = top,
                    !.height = imgHeight,
                    !.images = @ + 1,
                    !.currentPosition = top + imgHeight + ImageGap]

\* mutant: a new request abandons the exports in flight
PdfStartCancels ==
    /\ Len(pdfJobs) < MaxPdfExports
    /\ \E containerFound \in BOOLEAN :
        pdfJobs' = Append([j \in 1..Len(pdfJobs) |->
                              IF pdfJobs[j].pc = "awaiting"
                              THEN [pdfJobs[j] EXCEPT !.pc = "returned"]
                              ELSE pdfJobs[j]],
            IF containerFound THEN PdfJob ELSE PdfReturned)
    /\ lastOp' = "exportToPdf"
    /\ UNCHANGED <<now, chartVars, workerVars, winVars, hostVars, collVars,
                   props, rendered, isMobileIOS, exports, errorMessage, errorTimers,
                   canvasHeights>>

\* exportToPdf is clicked: the handler runs to its first await, or returns
\* when the charts container is not in the document
PdfStart ==
    /\ Len(pdfJobs) < MaxPdfExports
    /\ \E containerFound \in BOOLEAN :
        pdfJobs' = Append(pdfJobs,
            IF containerFound THEN PdfJob ELSE PdfReturned)
    /\ lastOp' = "exportToPdf"
    /\ UNCHANGED <<now, chartVars, workerVars, winVars, hostVars, collVars,
                   props, rendered, isMobileIOS, exports, errorMessage, errorTimers,
                   canvasHeights>>

\* html2canvas resolves for the awaited region: the image is added; then the
\* next region is handed to html2canvas, or the document is opened or saved
PdfRasterized ==
    /\ \E j \in 1..Len(pdfJobs) :
        /\ pdfJobs[j].pc = "awaiting"
        /\ pdfJobs' = [pdfJobs EXCEPT ![j] =
                IF @.region < ChartRegions
                THEN [PlaceImage(@) EXCEPT
                               !.region = @ + 1,
                               !.rasterized = Append(@, pdfJobs[j].region + 1)]
                ELSE [PlaceImage(@) EXCEPT
                               !.pc = "done",
                               !.output = IF isMobileIOS THEN "dataurlnewwindow"
                                          ELSE ReportName(now)]]
    /\ lastOp' = "html2canvas resolved"
    /\ UNCHANGED <<now, chartVars, workerVars, winVars, hostVars, collVars,
                   props, rendered, isMobileIOS, exports, errorMessage, errorTimers,
                   canvasHeights>>

PdfRasterFailed ==
    /\ \E j \in 1..Len(pdfJobs) : RasterFailed(j)
    /\ lastOp' = "html2canvas rejected"
    /\ UNCHANGED <<now, chartVars, workerVars, winVars, hostVars, collVars,
                   props, rendered, isMobileIOS, exports, canvasHeights>>

\* setTimeout(() => setErrorMessage(null), 3000) fires
ErrorTimeout ==
    /\ errorTimers # <<>>
    /\ now >= Head(errorTimers)
    /\ errorTimers' = Tail(errorTimers)
    /\ errorMessage' = ""
    /\ lastOp' = "setErrorMessage(null)"
    /\ UNCHANGED <<now, chartVars, workerVars, winVars, hostVars, collVars,
                   props, rendered, isMobileIOS, exports, pdfJobs, canvasHeights>>

\* the snapshots of the export specification: no resources
ExportSnapshots == {m \in Snapshots : m.resources = <<>>}

\* a chart mounted with a snapshot, its effects not modelled
InitExport ==
    /\ now = 0
    /\ lastOp = "init"
    /\ hasMemory = FALSE
    /\ ChartIdle
    /\ WorkerIdle
    /\ WinIdle
    /\ CollIdle
    /\ props \in ExportSnapshots
    /\ rendered = NotRendered
    /\ isMobileIOS \in BOOLEAN
    /\ exports = <<>>
    /\ PdfIdle

\* the JSON export
NextExport ==
    \/ AdvanceClock
    \/ Render
    \/ exportToJson
    \/ RevokeTimeout

\* a timer that is set fires
SpecExport == InitExport /\ [][NextExport]_vars /\ WF_vars(RevokeTimeout)

\* the clock while PDF exports and their banners are watched
AdvancePdfClock ==
    /\ now + PdfClockStep <= MaxPdfClockSteps * PdfClockStep
    /\ now' = now + PdfClockStep
    /\ lastOp' = "AdvanceClock"
    /\ UNCHANGED <<chartVars, workerVars, notChart>>

\* the PDF export
NextPdf ==
    \/ AdvancePdfClock
    \/ PdfStart
    \/ PdfRasterized
    \/ PdfRasterFailed
    \/ ErrorTimeout

\* a chart mounted on either kind of host, no export made yet
InitPdf ==
    /\ now = 0
    /\ lastOp = "init"
    /\ hasMemory = FALSE
    /\ ChartIdle
    /\ WorkerIdle
    /\ WinIdle
    /\ CollIdle
    /\ props = EmptyMetrics
    /\ rendered = NotRendered
    /\ isMobileIOS \in BOOLEAN
    /\ exports = <<>>
    /\ pdfJobs = <<>>
    /\ errorMessage = ""
    /\ errorTimers = <<>>
    /\ canvasHeights \in Layouts

SpecPdf == InitPdf /\ [][NextPdf]_vars /\ WF_vars(ErrorTimeout)

\* the full-history chart after its effects have run: both timers set, the
\* worker created, its script not yet evaluated
Init ==
    /\ now = 0
    /\ lastOp = "init"
    /\ chartData = EmptyChartData
    /\ baseTime = 0
    /\ hasMemory \in BOOLEAN
    /\ gpuContext \in {"gl", "null"}
    /\ memDue = SampleInterval
    /\ perfDue = SampleInterval
    /\ mounted = TRUE
    /\ memTimer = 1
    /\ perfTimer = 1
    /\ cpuWorker = "worker"
    /\ queued = NoUpdate
    /\ terminated = FALSE
    /\ glLost = FALSE
    /\ dropped = 0
    /\ gpuSampled = FALSE
    /\ WorkerIdle
    /\ WinIdle
    /\ CollIdle
    /\ AggIdle

Next ==
    \/ AdvanceClock
    \/ updateMemoryUsage
    \/ updatePerformanceData
    \/ onmessage
    \/ clearHistory
    \/ WorkerLoad
    \/ WorkerTimeout
    \/ Teardown

Spec == Init /\ [][Next]_vars

\* a chart view not yet mounted, on any host
InitLifecycle ==
    /\ now = 0
    /\ lastOp = "init"
    /\ hasMemory \in BOOLEAN
    /\ ChartIdle
    /\ WorkerIdle
    /\ WinIdle
    /\ CollIdle
    /\ AggIdle

NextLifecycle ==
    \/ AdvanceClock
    \/ Mount
    \/ StrictRemount
    \/ Rerender
    \/ updateMemoryUsage
    \/ updatePerformanceData
    \/ clearHistory
    \/ Teardown

SpecLifecycle == InitLifecycle /\ [][NextLifecycle]_vars

\* the full-history chart at the instant its timers are first due, the
\* worker's first run (a busy loop of ClockStep ms, the reading 100) just over
\* and its emission on the way; no export made yet
InitSession ==
    /\ now = SampleInterval
    /\ lastOp = "init"
    /\ chartData = EmptyChartData
    /\ baseTime = 0
    /\ hasMemory = TRUE
    /\ gpuContext = "gl"
    /\ memDue = SampleInterval
    /\ perfDue = SampleInterval
    /\ mounted = TRUE
    /\ memTimer = 1
    /\ perfTimer = 1
    /\ cpuWorker = "worker"
    /\ queued = NoUpdate
    /\ terminated = FALSE
    /\ glLost = FALSE
    /\ dropped = 0
    /\ gpuSampled = FALSE
    /\ workerLoaded = TRUE
    /\ lastTime = SampleInterval
    /\ readings = <<MinHundredRatio(ClockStep, ClockStep)>>
    /\ lastUsage = Smooth(readings[1], Int2Num(0))
    /\ emitted = <<lastUsage>>
    /\ inbox = <<lastUsage>>
    /\ workerDue = SampleInterval + WorkerDelay
    /\ runs = 1
    /\ pendingRuns = 1
    /\ WinIdle
    /\ CollIdle
    /\ props = EmptyMetrics
    /\ rendered = NotRendered
    /\ isMobileIOS \in BOOLEAN
    /\ exports = <<>>
    /\ pdfJobs = <<>>
    /\ errorMessage = ""
    /\ errorTimers = <<>>
    /\ canvasHeights \in Layouts

\* PDF exports made while the chart samples, receives and is cleared
NextSession ==
    \/ updatePerformanceData
    \/ onmessage
    \/ clearHistory
    \/ PdfStart
    \/ PdfRasterized
    \/ PdfRasterFailed

\* every call of html2canvas returns or throws
SpecSession ==
    InitSession /\ [][NextSession]_vars /\ WF_vars(PdfRasterized \/ PdfRasterFailed)

\* the clock as the worker's timer sees it: time passes while a run is waited for
AdvanceWorkerClock ==
    /\ pendingRuns > 0
    /\ runs < MaxRuns
    /\ now < workerDue
    /\ now' = now + ClockStep
    /\ lastOp' = "AdvanceClock"
    /\ UNCHANGED <<chartVars, workerVars, notChart>>

NextWorker ==
    \/ AdvanceWorkerClock
    \/ updatePerformanceData
    \/ onmessage
    \/ WorkerLoad
    \/ WorkerTimeout
    \/ Teardown

\* the worker's event loop is fair: time passes and a timer that is due fires
SpecWorker ==
    Init /\ [][NextWorker]_vars /\ WF_vars(AdvanceWorkerClock) /\ WF_vars(WorkerTimeout)

(***************************************************************************)
(* Chart component, 30 s windowed variant (part_003).  The timer callback  *)
(* reads the clock for the point's timestamp; the state updater reads it   *)
(* again for the filter, at most MaxUpdaterLag ms later.  The filter's     *)
(* reads of the clock (one per element) fall in one instant.               *)
(***************************************************************************)
RetentionWindow == 30000        \* Date.now() - 30000
MaxWinSeconds == 42             \* the variant's clock stops advancing here (s)
MaxUpdaterLag == 1              \* ms between the callback and its updater
WinClockSteps == {10 * SampleInterval, 11 * SampleInterval}

\* mutant: a point exactly 30 s old is kept
KeepWindowInclusive(newData, clock) ==
    SelectSeq(newData, LAMBDA point : point.timestamp >= clock - RetentionWindow)

\* newData.filter((point) => point.timestamp > Date.now() - 30000)
KeepWindow(newData, clock) ==
    SelectSeq(newData, LAMBDA point : point.timestamp > clock - RetentionWindow)

\* mutant: the new point is put at the head before the filter
PrependAndPrune(prev, newDataPoint, clock) ==
    KeepWindow(<<newDataPoint>> \o prev, clock)

\* (prev) => { const newData = [...prev, newDataPoint]; return newData.filter(...) }
AppendAndPrune(prev, newDataPoint, clock) ==
    KeepWindow(Append(prev, newDataPoint), clock)

AdvanceClockWindowed ==
    /\ \E d \in WinClockSteps :
        /\ now + d <= MaxWinSeconds * 1000
        /\ now' = now + d
    /\ lastOp' = "AdvanceClock"
    /\ UNCHANGED <<chartVars, workerVars, winVars, hostVars, collVars, aggVars>>

\* the variant's setInterval fires: updateMemoryUsage, then its updater
updateMemoryUsageWindowed ==
    /\ now >= winDue
    /\ winDue' = now + SampleInterval
    /\ prevTimeSeries' = memoryTimeSeries
    /\ \E lag \in 0..MaxUpdaterLag :
        /\ now' = now + lag
        /\ IF hasMemory
           THEN \E used \in UsedBytes, total \in TotalBytes :
                    memoryTimeSeries' =
                        AppendAndPrune(memoryTimeSeries,
                                       MemoryDataPoint(now, used, total), now + lag)
           ELSE memoryTimeSeries' = memoryTimeSeries
    /\ lastOp' = "updateMemoryUsageWindowed"
    /\ UNCHANGED <<chartVars, workerVars, hostVars, collVars, aggVars>>

InitWindowed ==
    /\ now = 0
    /\ lastOp = "init"
    /\ hasMemory \in BOOLEAN
    /\ ChartIdle
    /\ WorkerIdle
    /\ WinIdle
    /\ CollIdle
    /\ AggIdle

NextWindowed ==
    \/ AdvanceClockWindowed
    \/ updateMemoryUsageWindowed

SpecWindowed == InitWindowed /\ [][NextWindowed]_vars

\* the page shows one of the two variants of the chart: the full-history one
\* where it is mounted, the windowed one otherwise
InitSeries == Init \/ InitWindowed

NextSeries ==
    \/ mounted /\ AdvanceClock
    \/ mounted /\ updateMemoryUsage
    \/ mounted /\ updatePerformanceData
    \/ mounted /\ onmessage
    \/ mounted /\ clearHistory
    \/ mounted /\ WorkerLoad
    \/ mounted /\ WorkerTimeout
    \/ ~mounted /\ AdvanceClockWindowed
    \/ ~mounted /\ updateMemoryUsageWindowed

SpecSeries == InitSeries /\ [][NextSeries]_vars

(***************************************************************************)
(* Properties of the chart component (specification Spec).                 *)
(***************************************************************************)
Ordered(series) ==
    \A i \in 1..Len(series) - 1 : series[i].timestamp <= series[i + 1].timestamp

InRange(x) == ~x.nan /\ 0 <= x.num /\ x.num <= 100 * x.den

\* C1: in every reachable state both the memory-only series and the combined
\* performance series are ordered by non-decreasing timestamp.
C1_SeriesOrdered ==
    /\ Ordered(chartData.memoryTimeSeries)
    /\ Ordered(chartData.performanceData)

\* C1 witness: after a clear, both series hold two points again and a CPU
\* message has patched the last point of the combined series.
C1_Witness ==
    /\ baseTime > 0
    /\ Len(chartData.memoryTimeSeries) >= 2
    /\ Len(chartData.performanceData) >= 2
    /\ chartData.performanceData[1].timestamp < chartData.performanceData[2].timestamp
    /\ chartData.performanceData[2].cpuUsage # Int2Num(0)

\* C2: every point of the combined performance series has cpuUsage and
\* gpuUsage within [0,100], for every value the CPU estimator can emit.
C2_UsageInRange ==
    \A i \in 1..Len(chartData.performanceData) :
        /\ InRange(chartData.performanceData[i].cpuUsage)
        /\ InRange(chartData.performanceData[i].gpuUsage)

\* C7: clearHistory leaves both series empty and sets baseTime to the instant
\* of the clear; it changes nothing else, also when the series were empty.
C7_ClearHistory ==
    [][lastOp' = "clearHistory" =>
        /\ chartData' = EmptyChartData
        /\ baseTime' = now
        /\ UNCHANGED <<now, hasMemory, gpuContext, memDue, perfDue, workerVars>>]_vars

\* C7 witness: a clear that came after both timers had appended points, at an
\* instant later than the previous time origin.
C7_Witness ==
    /\ lastOp = "clearHistory"
    /\ hasMemory
    /\ memDue > SampleInterval
    /\ perfDue > SampleInterval
    /\ chartData = EmptyChartData
    /\ baseTime = now
    /\ now > 0

(***************************************************************************)
(* Properties of the windowed variant (specification SpecWindowed).        *)
(***************************************************************************)
Stamps(series) == [i \in 1..Len(series) |-> series[i].timestamp]

\* C6: after each tick that appends a point, the memory series is exactly the
\* previously retained points newer than 30000 ms before the append instant
\* (the instant the updater runs), followed by the new point.
C6_WindowRetention ==
    (lastOp = "updateMemoryUsageWindowed" /\ hasMemory) =>
        LET n == Len(memoryTimeSeries) IN
        /\ n >= 1
        /\ SubSeq(memoryTimeSeries, 1, n - 1) =
               SelectSeq(prevTimeSeries,
                         LAMBDA p : p.timestamp > now - RetentionWindow)
        /\ now - memoryTimeSeries[n].timestamp \in 0..MaxUpdaterLag
        /\ \A i \in 1..Len(prevTimeSeries) :
               prevTimeSeries[i].timestamp <= memoryTimeSeries[n].timestamp

\* C6 witness: points at 0, 10, 20 s (shifted by the first tick at 10 s) and
\* the append at 31 s: the point at 0 s is gone, the other three are present.
C6_Witness ==
    /\ lastOp = "updateMemoryUsageWindowed"
    /\ Stamps(prevTimeSeries) = <<10000, 20000, 30000>>
    /\ Stamps(memoryTimeSeries) = <<20000, 30000, 41000>>

(***************************************************************************)
(* Properties of the metrics collector (specification SpecCollector).      *)
(***************************************************************************)
\* C3: once the promise returned by runFullTest has resolved, no field of the
\* snapshot it produced changes any more (until the next invocation).
C3_SnapshotFrozen ==
    [][(pc = "resolved" /\ pc' = "resolved") => metrics' = metrics]_vars

\* C4: at the moment runFullTest completes, on a host with the layout-shift
\* capability, the snapshot's cumulativeLayoutShift and the value printed in
\* the report equal the sum of the entries whose hadRecentInput is false,
\* formatted to 3 decimals.
C4_ClsAtCompletion ==
    (lastOp = "runFullTest" /\ observer = "ok") =>
        /\ metrics.layout.cumulativeLayoutShift =
               JsString(ToFixed3(QualifyingSum(layoutShifts)))
        /\ report.cumulativeLayoutShift = ToFixed3(QualifyingSum(layoutShifts))

\* C5: the snapshot of an invocation depends only on the host state at that
\* invocation: a group whose host data is absent is empty in the result.
C5_FreshSnapshot ==
    lastOp = "runFullTest" =>
        /\ ~navPresent => metrics.timing = EmptyTiming
        /\ ~hasMemory => metrics.memory = EmptyMemory

(***************************************************************************)
(* Properties of the aggregation and the JSON export (specification        *)
(* SpecAggregator).                                                        *)
(***************************************************************************)
Min(a, b) == IF a < b THEN a ELSE b

\* the place of a resource in the snapshot's discovery order
DiscoveryIndex(r) == CHOOSE k \in 1..Len(props.resources) : props.resources[k] = r

\* C8: the resource series is the top-10 slice of the snapshot's resources by
\* duration: min(10, n) entries, sorted by descending duration, and no
\* resource left out has a larger duration than one that is included.
C8_TopTenByDuration ==
    rendered.done =>
        LET rd == rendered.resourceData IN
        /\ Len(rd) = Min(TopN, Len(props.resources))
        /\ \A i \in 1..Len(rd) - 1 : rd[i].duration.n >= rd[i + 1].duration.n
        /\ \A k \in 1..Len(props.resources) :
               (\A i \in 1..Len(rd) : rd[i] # props.resources[k]) =>
                   \A i \in 1..Len(rd) :
                       props.resources[k].duration.n <= rd[i].duration.n

\* C9: any two resources of equal duration appear in the chart series in
\* their original discovery order.
C9_StableOnTies ==
    rendered.done =>
        LET rd == rendered.resourceData IN
        \A i \in 1..Len(rd), j \in 1..Len(rd) :
            (i < j /\ rd[i].duration = rd[j].duration) =>
                DiscoveryIndex(rd[i]) < DiscoveryIndex(rd[j])

\* C9 witness: durations [5, 50, 5, 100] rendered as [100, 50, 5(first), 5(second)].
C9_Witness ==
    /\ rendered.done
    /\ props.resources = <<Resource(1, 5), Resource(2, 50), Resource(3, 5), Resource(4, 100)>>
    /\ rendered.resourceData =
           <<Resource(4, 100), Resource(2, 50), Resource(1, 5), Resource(3, 5)>>

\* C10: deserializing the blob of an export reproduces exactly the
\* timingMetrics, memoryData and resourceData arrays passed to the export,
\* and its timestamp is an ISO-8601 string (24 characters, as toISOString gives).
C10_ExportRoundTrip ==
    \A i \in 1..Len(exports) :
        LET back == JSONParse(exports[i].blob) IN
        /\ back.timingMetrics = exports[i].passed.timingMetrics
        /\ back.memoryData = exports[i].passed.memoryData
        /\ back.resourceData = exports[i].passed.resourceData
        /\ back.timestamp.t = "string"
        /\ Len(back.timestamp.s) = 24

(***************************************************************************)
(* Properties of the exports (specifications SpecExport and SpecPdf).      *)
(***************************************************************************)
CallsOf(e, op) == SelectSeq(e.calls, LAMBDA c : c.op = op)

\* the download names an export at one of the clock's instants can carry
DownloadNames == {DownloadName(k * ClockStep) : k \in 0..MaxClockSteps}

Delivered(e) ==
    /\ IF e.opened
       THEN /\ Len(CallsOf(e, "window.open")) = 1
            /\ Len(CallsOf(e, "link.click")) = 0
       ELSE /\ Len(CallsOf(e, "window.open")) = 0
            /\ Len(CallsOf(e, "link.click")) = 1
            /\ CallsOf(e, "link.click")[1].arg \in DownloadNames
    /\ \A i \in 1..Len(e.calls) :
           e.calls[i].op = "revokeObjectURL" =>
               \E k \in 1..(i - 1) : e.calls[k].op \in {"window.open", "link.click"}

\* C11: a JSON export on the restricted mobile host opens the blob and never
\* triggers a download, on any other host it triggers exactly one download
\* named performance-data-<ISO timestamp>.json; on both paths the object URL
\* is revoked only after the handoff, and it is eventually revoked.
C11_ExportDelivery ==
    /\ [](\A i \in 1..Len(exports) : Delivered(exports[i]))
    /\ \A i \in 1..MaxExports :
           (Len(exports) >= i) ~>
               (Len(exports) >= i /\ Len(CallsOf(exports[i], "revokeObjectURL")) = 1)

\* C11 witness: on the restricted mobile host the timer has revoked the URL of
\* an export that was opened in a new view.
C11_Witness ==
    /\ lastOp = "revokeObjectURL"
    /\ isMobileIOS
    /\ Len(exports) >= 1
    /\ exports[1].calls = << HostCall("createObjectURL", ""),
                             HostCall("window.open", "_blank"),
                             HostCall("revokeObjectURL", "") >>

\* C12: if the rasterization of a region fails during a PDF export, the export
\* stops at that region: no later region is rasterized, the document is
\* neither saved nor opened, and the error message is set.
C12_PdfAbort ==
    /\ [](\A j \in 1..Len(pdfJobs) :
            pdfJobs[j].failed # 0 =>
                /\ pdfJobs[j].rasterized = [k \in 1..pdfJobs[j].failed |-> k]
                /\ pdfJobs[j].images = pdfJobs[j].failed - 1
                /\ pdfJobs[j].output = "none")
    /\ [][\A j \in 1..Len(pdfJobs) :
            (pdfJobs[j].failed = 0 /\ pdfJobs'[j].failed # 0) =>
                errorMessage' = FailedMessage]_vars

\* C12 witness: the second region failed after the first was added; the
\* message is shown and nothing was saved or opened.
C12_Witness ==
    /\ Len(pdfJobs) >= 1
    /\ pdfJobs[1].failed = 2
    /\ pdfJobs[1].images = 1
    /\ pdfJobs[1].output = "none"
    /\ errorMessage = FailedMessage

(***************************************************************************)
(* Further properties of the chart component and its worker (Spec).        *)
(***************************************************************************)
\* C13: when no graphics context is available, the gpuUsage of every point of
\* the combined series is exactly 0 and the buffer-upload benchmark never runs.
C13_NoContextZero ==
    gpuContext = "null" =>
        /\ \A i \in 1..Len(chartData.performanceData) :
               chartData.performanceData[i].gpuUsage = Int2Num(0)
        /\ ~gpuSampled

\* C13 witness: two ticks have appended points on a host without a context.
C13_Witness ==
    /\ gpuContext = "null"
    /\ lastOp = "updatePerformanceData"
    /\ Len(chartData.performanceData) >= 2

RECURSIVE Pow(_, _)
Pow(b, e) == IF e = 0 THEN 1 ELSE b * Pow(b, e - 1)

\* sum over k = from..n of 0.1 * 0.9^(n-k) * r_k, as a fraction
RECURSIVE WeightedSum(_, _, _)
WeightedSum(rs, from, n) ==
    IF from > n THEN Int2Num(0)
    ELSE LET rest == WeightedSum(rs, from + 1, n)
             r == rs[from]
             w == Pow(9, n - from)
             d == Pow(10, n - from + 1)
         IN IF r.nan \/ rest.nan THEN NaN
            ELSE Num(r.num * w * rest.den + rest.num * r.den * d, r.den * d * rest.den)

\* C14: the n-th emitted value is 0.1*r_n + 0.9*(the value before), from 0,
\* with r_n the n-th reading, capped at 100: the first is 0.1*r1, the second
\* 0.1*r2 + 0.9*(0.1*r1); exactly one value is emitted per benchmark run.
C14_Smoothing ==
    /\ Len(emitted) = runs
    /\ Len(readings) = runs
    /\ \A n \in 1..runs :
        /\ emitted[n] = WeightedSum(readings, 1, n)
        /\ readings[n].nan \/ readings[n].num <= 100 * readings[n].den
    /\ runs >= 1 => lastUsage = emitted[runs]

\* C14 witness: readings 100 and 100/3 give the emissions 10 and 37/3.
C14_Witness ==
    /\ runs = 2
    /\ readings = <<Int2Num(100), Num(100, 3)>>
    /\ emitted = <<Int2Num(10), Num(37, 3)>>

C19_LastKnownCpu ==
    (lastOp = "updatePerformanceData" /\ hasMemory /\ runs >= 1 /\ inbox = <<>>) =>
        chartData.performanceData[Len(chartData.performanceData)].cpuUsage = lastUsage

\* C20: a CPU-worker message changes at most the cpuUsage of the last point of
\* the combined series; with an empty series it is dropped, state unchanged.
C20_MessageFrame ==
    [][lastOp' = "onmessage" =>
        LET old == chartData.performanceData
            new == chartData'.performanceData
            n == Len(old)
        IN  /\ Len(new) = n
            /\ \A i \in 1..(n - 1) : new[i] = old[i]
            /\ n > 0 => [new[n] EXCEPT !.cpuUsage = old[n].cpuUsage] = old[n]
            /\ chartData'.memoryTimeSeries = chartData.memoryTimeSeries
            /\ n = 0 => chartData' = chartData
            /\ UNCHANGED <<now, baseTime, gpuContext, memDue, perfDue, lifeVars>>]_vars

\* C20 witness: a message has set the cpuUsage of the last of two points and
\* left the first at the 0 it was appended with.
C20_Witness ==
    /\ lastOp = "onmessage"
    /\ Len(chartData.performanceData) = 2
    /\ chartData.performanceData[1].cpuUsage = Int2Num(0)
    /\ chartData.performanceData[2].cpuUsage = Int2Num(10)

(***************************************************************************)
(* Further properties of the metrics collector (SpecCollector).            *)
(***************************************************************************)
\* C16: for every navigation entry, the snapshot's totalLoadTime equals
\* loadEventEnd - navigationStart and domContentLoaded equals
\* domContentLoadedEventEnd - navigationStart; both are 0 when both end
\* times equal navigationStart.
C16_LoadTimes ==
    (lastOp = "runFullTest" /\ navPresent) =>
        LET nav == hostData.nav IN
        /\ metrics.timing.totalLoadTime.t = "number"
        /\ metrics.timing.totalLoadTime.n + nav.navigationStart = nav.loadEventEnd
        /\ metrics.timing.domContentLoaded.t = "number"
        /\ metrics.timing.domContentLoaded.n + nav.navigationStart
               = nav.domContentLoadedEventEnd
        /\ (nav.loadEventEnd = nav.navigationStart
            /\ nav.domContentLoadedEventEnd = nav.navigationStart) =>
               /\ metrics.timing.totalLoadTime = Whole(0)
               /\ metrics.timing.domContentLoaded = Whole(0)

\* C16 witness: an entry whose end times equal navigationStart gave 0 and 0.
C16_Witness ==
    /\ lastOp = "runFullTest"
    /\ navPresent
    /\ hostData.nav.loadEventEnd = hostData.nav.navigationStart
    /\ metrics.timing.totalLoadTime = Whole(0)
    /\ metrics.timing.domContentLoaded = Whole(0)

\* v is the whole number nearest to bytes / 1048576 (halves go up)
NearestMB(v, bytes) ==
    /\ v.t = "number"
    /\ v.n % 10 = 0
    /\ LET twice == 2 * (bytes.rest - ((v.n \div 10) - bytes.mb) * BytesPerMB)
       IN  -BytesPerMB <= twice /\ twice < BytesPerMB

\* C17: when the host exposes heap fields, each memory field of the snapshot
\* is the byte count divided by 1048576 and rounded to the nearest integer
\* (104857600, 209715200, 2147483648 give 100, 200, 2048); when it exposes
\* none, the invocation leaves the memory block as it was, which is empty on
\* a collector that has measured no memory before.
C17_MemoryRounding ==
    [][lastOp' = "runFullTest" =>
        IF hasMemory
        THEN /\ NearestMB(metrics'.memory.usedJSHeapSize, hostData.heap.usedJSHeapSize)
             /\ NearestMB(metrics'.memory.totalJSHeapSize, hostData.heap.totalJSHeapSize)
             /\ NearestMB(metrics'.memory.jsHeapSizeLimit, hostData.heap.jsHeapSizeLimit)
             /\ hostData.heap = [usedJSHeapSize |-> Bytes(100, 0),
                                 totalJSHeapSize |-> Bytes(200, 0),
                                 jsHeapSizeLimit |-> Bytes(2048, 0)] =>
                    metrics'.memory = [usedJSHeapSize |-> Whole(100),
                                       totalJSHeapSize |-> Whole(200),
                                       jsHeapSizeLimit |-> Whole(2048)]
        ELSE metrics'.memory = metrics.memory]_vars

\* C17 witness: the heap of 104857600, 209715200 and 2147483648 bytes was
\* measured as 100, 200 and 2048 MB.
C17_Witness ==
    /\ lastOp = "runFullTest"
    /\ hasMemory
    /\ hostData.heap.usedJSHeapSize = Bytes(100, 0)
    /\ metrics.memory = [usedJSHeapSize |-> Whole(100), totalJSHeapSize |-> Whole(200),
                         jsHeapSizeLimit |-> Whole(2048)]

\* C18: when the host lacks the layout-shift capability, the snapshot's
\* cumulativeLayoutShift is the "Not supported" sentinel, in every variant.
C18_NotSupportedSentinel ==
    (lastOp = "runFullTest" /\ observer # "ok") =>
        metrics.layout.cumulativeLayoutShift = JsString("Not supported")

(***************************************************************************)
(* Properties of the two series of the chart component (Spec).             *)
(***************************************************************************)
\* C21: with the heap API available, the memory-only series and the combined
\* series have equal length and pairwise equal timestamps after any sequence
\* of ticks, CPU messages and clears (one tick appends to both in one step).
C21_SeriesInStep ==
    hasMemory =>
        Stamps(chartData.memoryTimeSeries) = Stamps(chartData.performanceData)

\* C22: with no heap API both series stay empty in every reachable state,
\* whatever CPU messages arrive and whatever graphics context exists.
C22_NoHeapNoPoints ==
    ~hasMemory => chartData = EmptyChartData

\* C22 witness: on a host without the heap API but with a graphics context,
\* both timers have fired and a CPU message has been handled.
C22_Witness ==
    /\ ~hasMemory
    /\ gpuContext = "gl"
    /\ memDue > SampleInterval
    /\ perfDue > SampleInterval
    /\ lastOp = "onmessage"
    /\ chartData = EmptyChartData

\* C30: every point held in either series has a timestamp greater than or
\* equal to baseTime, so the elapsed time shown for it is never negative.
C30_NotBeforeOrigin ==
    /\ \A i \in 1..Len(chartData.memoryTimeSeries) :
           chartData.memoryTimeSeries[i].timestamp >= baseTime
    /\ \A i \in 1..Len(chartData.performanceData) :
           chartData.performanceData[i].timestamp >= baseTime

\* C30 witness: after a clear at a later instant, both series hold a point
\* again, stamped at or after the new time origin.
C30_Witness ==
    /\ baseTime > 0
    /\ chartData.memoryTimeSeries # <<>>
    /\ chartData.performanceData # <<>>
    /\ chartData.memoryTimeSeries[1].timestamp >= baseTime
    /\ chartData.performanceData[1].timestamp >= baseTime

(***************************************************************************)
(* Paint times of the snapshot (SpecCollector).                            *)
(***************************************************************************)
\* C28: when a navigation entry exists, firstPaint and firstContentfulPaint
\* are the start times of the first and second paint entries whenever those
\* entries are present (a start time of 0 included), and "Not available"
\* only when the entry is absent.
C28_PaintTimes ==
    (lastOp = "measurePageLoad" /\ navPresent) =>
        /\ metrics.timing.firstPaint =
               IF Len(hostData.paints) >= 1 THEN JsNumber(hostData.paints[1])
               ELSE JsString("Not available")
        /\ metrics.timing.firstContentfulPaint =
               IF Len(hostData.paints) >= 2 THEN JsNumber(hostData.paints[2])
               ELSE JsString("Not available")

(***************************************************************************)
(* The worker's repetition (SpecWorker).                                   *)
(***************************************************************************)
\* C27: every benchmark run emits one value and sets exactly one timer for
\* the next run, 1 s later; at any time at most one run is pending; until the
\* worker is terminated, every run is followed by another one.
C27_Repeats ==
    /\ [](pendingRuns <= 1)
    /\ [][lastOp' = "calculateCPULoad" =>
            /\ Len(emitted') = Len(emitted) + 1
            /\ Len(inbox') = Len(inbox) + 1
            /\ pendingRuns' = 1
            /\ workerDue' = now' + WorkerDelay]_vars
    /\ \A k \in 1..(MaxRuns - 1) :
           (runs = k /\ ~terminated) ~> (runs > k \/ terminated)

\* C27 witness: a second run was started by the timer of the first, 1 s or
\* more after it, and has set its own timer.
C27_Witness ==
    /\ lastOp = "calculateCPULoad"
    /\ runs = 2
    /\ ~terminated
    /\ pendingRuns = 1
    /\ Len(emitted) = 2
    /\ now >= WorkerDelay

(***************************************************************************)
(* The timers over the life of the chart view (SpecLifecycle).             *)
(***************************************************************************)
\* C29: at any time at most one memory timer and at most one performance
\* timer are active, across mount, the re-run of the sampling effect and
\* unmount; no performance timer is active before the CPU worker exists, and
\* none of either kind once the view is unmounted.
C29_OneTimerEach ==
    /\ memTimer \in {0, 1}
    /\ perfTimer \in {0, 1}
    /\ perfTimer > 0 => cpuWorker # "null"
    /\ ~mounted => (memTimer = 0 /\ perfTimer = 0)

\* C29 witness: the render that put the worker in state has re-run the
\* sampling effect; one timer of each kind is active.
C29_Witness ==
    /\ lastOp = "rerender"
    /\ mounted
    /\ cpuWorker = "worker"
    /\ memTimer = 1
    /\ perfTimer = 1

(***************************************************************************)
(* Removal of points (SpecSeries: either variant of the chart).            *)
(***************************************************************************)
\* kept is what remains of old after some of its first points were removed
IsSuffix(kept, old) ==
    /\ Len(kept) <= Len(old)
    /\ kept = SubSeq(old, Len(old) - Len(kept) + 1, Len(old))

\* a point with its cpuUsage left out
SansCpu(point) == [point EXCEPT !.cpuUsage = Int2Num(0)]

\* C23: in the windowed variant the series after a tick is a suffix of the
\* series before it followed by the new point; in the full-history variant no
\* tick and no CPU message removes or reorders a point, and a series gets
\* shorter only by clearHistory.
C23_HeadOnly ==
    /\ [][(lastOp' = "updateMemoryUsageWindowed" /\ hasMemory) =>
            LET n == Len(memoryTimeSeries') IN
            /\ n >= 1
            /\ IsSuffix(SubSeq(memoryTimeSeries', 1, n - 1), memoryTimeSeries)
            /\ \A i \in 1..Len(memoryTimeSeries) :
                   memoryTimeSeries'[n] # memoryTimeSeries[i]]_vars
    /\ [][lastOp' \in {"updateMemoryUsage", "updatePerformanceData", "onmessage"} =>
            LET oldMem == chartData.memoryTimeSeries
                newMem == chartData'.memoryTimeSeries
                oldPerf == chartData.performanceData
                newPerf == chartData'.performanceData
            IN  /\ Len(newMem) >= Len(oldMem)
                /\ SubSeq(newMem, 1, Len(oldMem)) = oldMem
                /\ Len(newPerf) >= Len(oldPerf)
                /\ \A i \in 1..Len(oldPerf) : SansCpu(newPerf[i]) = SansCpu(oldPerf[i])]_vars
    /\ [][(\/ Len(chartData'.memoryTimeSeries) < Len(chartData.memoryTimeSeries)
           \/ Len(chartData'.performanceData) < Len(chartData.performanceData)) =>
               lastOp' = "clearHistory"]_vars

\* C23 witness: a tick of the windowed variant has dropped the oldest of three
\* points and kept the other two, in their order, before the new one.
C23_Witness ==
    /\ lastOp = "updateMemoryUsageWindowed"
    /\ Len(prevTimeSeries) = 3
    /\ Len(memoryTimeSeries) = 3
    /\ SubSeq(memoryTimeSeries, 1, 2) = Tail(prevTimeSeries)
    /\ memoryTimeSeries[3].timestamp > prevTimeSeries[3].timestamp

(***************************************************************************)
(* Layout and error banner of the PDF export (SpecPdf).                    *)
(***************************************************************************)
\* C24: no chart image extends past the bottom of its page: whenever an image
\* whose caption and height fit on an empty page has been placed, its top
\* position plus its height is at most the page height.
C24_ImageOnPage ==
    \A j \in 1..Len(pdfJobs) :
        (/\ pdfJobs[j].images >= 1
         /\ PageTop + CaptionStep + pdfJobs[j].height <= PageHeight) =>
            pdfJobs[j].top + pdfJobs[j].height <= PageHeight

\* C26: after every failed PDF export the error message stays set for 3 s
\* counted from that failure, also when the banner of an earlier failure is
\* still shown at that moment; a failed export is not resumed.
C26_BannerThreeSeconds ==
    \A j \in 1..Len(pdfJobs) :
        pdfJobs[j].failed # 0 =>
            /\ now < pdfJobs[j].failedAt + BannerTime => errorMessage = FailedMessage
            /\ pdfJobs[j].pc = "failed"
            /\ pdfJobs[j].region = pdfJobs[j].failed

(***************************************************************************)
(* A PDF export among the other events of the view (SpecSession).          *)
(***************************************************************************)
\* C25: once a PDF export is rasterizing, only the outcomes of its own
\* rasterization calls change its course: ticks, CPU messages, clears and
\* further export requests leave it as it is, and it reaches exactly one
\* terminal outcome, the document delivered (saved, or opened inline on the
\* restricted mobile host) or the error banner raised: a job changes only
\* while it is rasterizing, so it is settled whenever no job is rasterizing,
\* which is the case again and again.
C25_RunsToOutcome ==
    /\ [](\A j \in 1..Len(pdfJobs) :
            /\ pdfJobs[j].pc = "done" =>
                   /\ pdfJobs[j].failed = 0
                   /\ pdfJobs[j].images = ChartRegions
                   /\ pdfJobs[j].output # "none"
                   /\ pdfJobs[j].output = "dataurlnewwindow" <=> isMobileIOS
            /\ pdfJobs[j].pc = "failed" =>
                   /\ pdfJobs[j].failed # 0
                   /\ pdfJobs[j].output = "none")
    /\ [][\A j \in 1..Len(pdfJobs) :
            /\ Len(pdfJobs') >= Len(pdfJobs)
            /\ pdfJobs'[j] # pdfJobs[j] =>
                   /\ lastOp' \in {"html2canvas resolved", "html2canvas rejected"}
                   /\ pdfJobs[j].pc = "awaiting"
                   /\ \A k \in 1..Len(pdfJobs) : k # j => pdfJobs'[k] = pdfJobs[k]
                   /\ pdfJobs'[j].pc = "failed" => errorMessage' = FailedMessage
                   /\ pdfJobs'[j].pc = "done" =>
                          pdfJobs'[j].output =
                              IF isMobileIOS THEN "dataurlnewwindow"
                              ELSE ReportName(now)]_vars
    /\ []<>(\A j \in 1..Len(pdfJobs) : pdfJobs[j].pc # "awaiting")

\* C25 witness: of two exports in flight together, the first was delivered and
\* the second ended with the banner, after a tick, a CPU message and a clear.
C25_Witness ==
    /\ Len(pdfJobs) = 2
    /\ pdfJobs[1].pc = "done"
    /\ pdfJobs[1].output # "none"
    /\ pdfJobs[2].pc = "failed"
    /\ pdfJobs[2].failed = 2
    /\ errorMessage = FailedMessage
    /\ baseTime > 0
    /\ chartData.performanceData # <<>>
    /\ inbox = <<>>

====
